---- MODULE Spec2Model ----
(***************************************************************************)
(* Donor registry service: the Donor schema, the record store behind it,   *)
(* the single-record operations, the filtered list, the statistics and the *)
(* CSV import of DonorService.                                             *)
(*                                                                         *)
(* Strings are sequences of one-character strings, so that trim(),         *)
(* toLowerCase(), toUpperCase(), parseInt() and the ObjectId cast are      *)
(* computed and not assumed.  JavaScript values are tagged records.        *)
(* Dates are whole days; a date column holds the day written in digits.    *)
(***************************************************************************)
EXTENDS Integers, Sequences, FiniteSets, TLC

\* ------------------------------------------------------------------ bounds
\* rows one CSV file delivers at most
MaxRows == 2
\* documents the store ever inserts (ids are never reused)
MaxDocs == 2
\* length of a well-formed identifier (24 hex digits in the store, scaled)
IdLen == 2

\* ------------------------------------------------------- program constants
DuplicateKeyCode == 11000
EligibilityDays == 90

\* ------------------------------------------------------- JavaScript values
Undefined == [t |-> "undefined"]
Null == [t |-> "null"]
NaN == [t |-> "nan"]
InvalidDate == [t |-> "invalid_date"]
Str(s) == [t |-> "string", v |-> s]
Num(n) == [t |-> "number", v |-> n]
DateOf(d) == [t |-> "date", v |-> d]
Bool(b) == [t |-> "boolean", v |-> b]

IsStr(x) == x.t = "string"

\* truthiness of the values the service tests with `!x`, `x ? :` and `x || y`
Truthy(x) ==
  CASE x.t = "undefined" -> FALSE
    [] x.t = "null" -> FALSE
    [] x.t = "nan" -> FALSE
    [] x.t = "string" -> Len(x.v) > 0
    [] x.t = "number" -> x.v # 0
    [] x.t = "boolean" -> x.v
    [] OTHER -> TRUE

\* ----------------------------------------------------------------- strings
ToLowerChar(c) ==
  CASE c = "A" -> "a" [] c = "B" -> "b" [] c = "N" -> "n" [] OTHER -> c

ToUpperChar(c) ==
  CASE c = "a" -> "A" [] c = "b" -> "B" [] c = "n" -> "N" [] OTHER -> c

ToLowerCase(s) == [i \in 1..Len(s) |-> ToLowerChar(s[i])]
ToUpperCase(s) == [i \in 1..Len(s) |-> ToUpperChar(s[i])]

IsSpace(c) == c = " "

RECURSIVE TrimLeft(_)
TrimLeft(s) == IF s # <<>> /\ IsSpace(Head(s)) THEN TrimLeft(Tail(s)) ELSE s

RECURSIVE TrimRight(_)
TrimRight(s) ==
  IF s # <<>> /\ IsSpace(s[Len(s)]) THEN TrimRight(SubSeq(s, 1, Len(s) - 1)) ELSE s

Trim(s) == TrimRight(TrimLeft(s))

\* UTF-16 code units of the characters used, for the store's string order
CharCode(c) ==
  CASE c = " " -> 32 [] c = "+" -> 43 [] c = "-" -> 45
    [] c = "0" -> 48 [] c = "1" -> 49 [] c = "2" -> 50 [] c = "3" -> 51
    [] c = "4" -> 52 [] c = "5" -> 53 [] c = "6" -> 54 [] c = "7" -> 55
    [] c = "8" -> 56 [] c = "9" -> 57
    [] c = "A" -> 65 [] c = "B" -> 66 [] c = "N" -> 78
    [] c = "a" -> 97 [] c = "b" -> 98 [] c = "g" -> 103 [] c = "n" -> 110
    [] OTHER -> 122

IsDigit(c) == c \in {"0", "1", "2", "3", "4", "5", "6", "7", "8", "9"}
DigitVal(c) == CharCode(c) - 48
IsHexDigit(c) == IsDigit(c) \/ c \in {"a", "b", "A", "B"}

RECURSIVE StrLess(_, _)
\* binary (code unit) comparison of two strings, a < b
StrLess(a, b) ==
  IF b = <<>> THEN FALSE
  ELSE IF a = <<>> THEN TRUE
  ELSE IF CharCode(Head(a)) # CharCode(Head(b)) THEN CharCode(Head(a)) < CharCode(Head(b))
  ELSE StrLess(Tail(a), Tail(b))

RECURSIVE DigitsValue(_, _)
\* value of the longest prefix of digits of s, after acc; NaN when there is none
DigitsValue(s, acc) ==
  IF s # <<>> /\ IsDigit(Head(s))
  THEN DigitsValue(Tail(s), IF acc = NaN THEN Num(DigitVal(Head(s)))
                                         ELSE Num(acc.v * 10 + DigitVal(Head(s))))
  ELSE acc

\* parseInt(x): leading white space skipped, then the digits; NaN otherwise
ParseInt(x) == IF IsStr(x) THEN DigitsValue(TrimLeft(x.v), NaN) ELSE NaN

\* new Date(text): the day the text denotes, Invalid Date for any other text
ParseDate(x) ==
  IF IsStr(x) /\ x.v # <<>> /\ \A i \in 1..Len(x.v) : IsDigit(x.v[i])
  THEN DateOf(DigitsValue(x.v, NaN).v)
  ELSE InvalidDate

\* x?.trim() || '' , with case folding applied before the ||
TrimOrEmpty(x) == IF IsStr(x) THEN Str(Trim(x.v)) ELSE Str(<<>>)
TrimLowerOrEmpty(x) == IF IsStr(x) THEN Str(ToLowerCase(Trim(x.v))) ELSE Str(<<>>)
TrimUpperOrEmpty(x) == IF IsStr(x) THEN Str(ToUpperCase(Trim(x.v))) ELSE Str(<<>>)

\* ------------------------------------------------------------------ schema
\* The repository registers the model "Donor" twice: models/donorModel.js
\* with latitude and longitude required ("geo"), and a second definition
\* without them ("plain").  Which one a build loads is fixed at start-up.
SchemaVariants == {"geo", "plain"}

StringPaths == {"name", "blood_group", "contact_number", "email", "address"}
GeoPaths == {"latitude", "longitude"}
Fields == StringPaths \cup {"age", "last_donation_date"} \cup GeoPaths

SchemaPaths(sch) == IF sch = "geo" THEN Fields ELSE Fields \ GeoPaths

\* every path but last_donation_date is `required: true`
RequiredPaths(sch) == SchemaPaths(sch) \ {"last_donation_date"}

\* the value a path holds after casting and its setters (name: trim: true)
CastPath(f, x) ==
  IF f = "name" /\ IsStr(x) THEN Str(Trim(x.v)) ELSE x

\* a value the path's type cannot hold
CastFails(f, x) ==
  \/ f = "last_donation_date" /\ x = InvalidDate
  \/ f \in {"age"} \cup GeoPaths /\ x = NaN

\* the `required` validator of a path
RequiredOk(f, x) ==
  IF f \in StringPaths THEN IsStr(x) /\ Len(x.v) > 0
                       ELSE x.t = "number"

\* new Donor(data): paths outside the schema are dropped (strict), the
\* default of last_donation_date is null
Hydrate(sch, data) ==
  [f \in Fields |->
     IF f \notin SchemaPaths(sch) THEN Undefined
     ELSE IF f = "last_donation_date" /\ data[f] = Undefined THEN Null
     ELSE CastPath(f, data[f])]

DocValid(sch, doc) ==
  /\ \A f \in SchemaPaths(sch) : ~CastFails(f, doc[f])
  /\ \A f \in RequiredPaths(sch) : RequiredOk(f, doc[f])

\* --------------------------------------------------------- store and errors
ValidationError == [name |-> "ValidationError", code |-> 0]
CastError == [name |-> "CastError", code |-> 0]
DuplicateKeyError == [name |-> "MongoServerError", code |-> DuplicateKeyCode]

Returned(v) == [ok |-> TRUE, value |-> v]
Thrown(e) == [ok |-> FALSE, error |-> e]

\* the unique index on email: exact (case-sensitive) equality of the values
EmailTaken(st, email, exceptId) ==
  \E r \in st : r.email = email /\ r._id # exceptId

WithId(doc, id) == [f \in Fields \cup {"_id"} |-> IF f = "_id" THEN id ELSE doc[f]]

\* identifier text of the n-th document the store inserts
IdOfNat(n) ==
  [i \in 1..IdLen |-> IF i = IdLen THEN <<"0", "1", "2", "3", "4", "5", "6", "7", "8", "9">>[n + 1]
                                   ELSE "0"]

\* the ObjectId cast: exactly IdLen hex digits
WellFormedId(id) ==
  IsStr(id) /\ Len(id.v) = IdLen /\ \A i \in 1..IdLen : IsHexDigit(id.v[i])

\* Donor.create(data): validation runs before the insert, the insert checks
\* the unique index atomically.  [res, store]
ModelCreate(sch, st, nid, data) ==
  LET doc == Hydrate(sch, data) IN
  IF ~DocValid(sch, doc) THEN [res |-> Thrown(ValidationError), store |-> st]
  ELSE IF EmailTaken(st, doc.email, <<>>) THEN [res |-> Thrown(DuplicateKeyError), store |-> st]
  ELSE [res |-> Returned(WithId(doc, IdOfNat(nid))),
        store |-> st \cup {WithId(doc, IdOfNat(nid))}]

\* Donor.findById(id)
ModelFindById(st, id) ==
  IF ~WellFormedId(id) THEN Thrown(CastError)
  ELSE IF \E r \in st : r._id = id.v
       THEN Returned(CHOOSE r \in st : r._id = id.v)
       ELSE Returned(Null)

\* the paths an update document sets (undefined values are skipped)
SetPaths(sch, upd) == {f \in SchemaPaths(sch) : upd[f] # Undefined}

ApplyUpdate(sch, doc, upd) ==
  [f \in Fields \cup {"_id"} |->
     IF f \in SetPaths(sch, upd) THEN CastPath(f, upd[f]) ELSE doc[f]]

\* Donor.findByIdAndUpdate(id, upd, {new: true, runValidators: true}):
\* the filter and the update are cast, the validators of the paths set are
\* run, then the store updates the document under the unique index.
ModelFindByIdAndUpdate(sch, st, id, upd) ==
  IF ~WellFormedId(id) THEN [res |-> Thrown(CastError), store |-> st]
  ELSE IF \E f \in SetPaths(sch, upd) : CastFails(f, upd[f])
       THEN [res |-> Thrown(CastError), store |-> st]
  ELSE IF \E f \in SetPaths(sch, upd) \cap RequiredPaths(sch) :
             ~RequiredOk(f, CastPath(f, upd[f]))
       THEN [res |-> Thrown(ValidationError), store |-> st]
  ELSE IF ~\E r \in st : r._id = id.v THEN [res |-> Returned(Null), store |-> st]
  ELSE LET old == CHOOSE r \in st : r._id = id.v
           new == ApplyUpdate(sch, old, upd) IN
       IF EmailTaken(st, new.email, old._id)
       THEN [res |-> Thrown(DuplicateKeyError), store |-> st]
       ELSE [res |-> Returned(new), store |-> (st \ {old}) \cup {new}]

\* Donor.findByIdAndDelete(id)
ModelFindByIdAndDelete(st, id) ==
  IF ~WellFormedId(id) THEN [res |-> Thrown(CastError), store |-> st]
  ELSE IF ~\E r \in st : r._id = id.v THEN [res |-> Returned(Null), store |-> st]
  ELSE LET old == CHOOSE r \in st : r._id = id.v IN
       [res |-> Returned(old), store |-> st \ {old}]

\* ------------------------------------------------- single-record operations
\* what a service call gives its caller
Resolved(v) == [ok |-> TRUE, value |-> v]
Rejected(msg) == [ok |-> FALSE, error |-> msg]

\* mutant: the catch rethrows without looking for a CastError
CatchIdErrorRethrows(e) == Rejected(e.name)

\* catch (error) of getDonorById, updateDonor and deleteDonor
CatchIdError(e) ==
  IF e.name = "CastError" THEN Rejected("Invalid donor ID format")
  ELSE Rejected(e.name)

\* catch (error) of updateDonor
CatchUpdateError(e) ==
  IF e.name = "CastError" THEN Rejected("Invalid donor ID format")
  ELSE IF e.code = DuplicateKeyCode THEN Rejected("Email already exists")
  ELSE Rejected(e.name)

\* catch (error) of createDonor
CatchCreateError(e) ==
  IF e.code = DuplicateKeyCode THEN Rejected("Email already exists")
  ELSE Rejected(e.name)

getDonorById(st, donorId) ==
  LET r == ModelFindById(st, donorId) IN
  IF ~r.ok THEN CatchIdError(r.error)
  ELSE IF r.value = Null THEN Rejected("Donor not found")
  ELSE Resolved(r.value)

createDonor(sch, st, nid, donorData) ==
  LET r == ModelCreate(sch, st, nid, donorData) IN
  [out |-> IF r.res.ok THEN Resolved(r.res.value) ELSE CatchCreateError(r.res.error),
   store |-> r.store]

updateDonor(sch, st, donorId, updateData) ==
  LET r == ModelFindByIdAndUpdate(sch, st, donorId, updateData) IN
  [out |-> IF ~r.res.ok THEN CatchUpdateError(r.res.error)
           ELSE IF r.res.value = Null THEN Rejected("Donor not found")
           ELSE Resolved(r.res.value),
   store |-> r.store]

deleteDonor(st, donorId) ==
  LET r == ModelFindByIdAndDelete(st, donorId) IN
  [out |-> IF ~r.res.ok THEN CatchIdError(r.res.error)
           ELSE IF r.res.value = Null THEN Rejected("Donor not found")
           ELSE Resolved(r.res.value),
   store |-> r.store]

\* ---------------------------------------------------------------- the list
TrueText == Str(<<"t", "r", "u", "e">>)

\* mutant: $lt in place of $lte
ListMatchesStrictlyBefore(filters, now, r) ==
  /\ Truthy(filters.blood_group) =>
       r.blood_group = Str(ToUpperCase(filters.blood_group.v))
  /\ filters.isEligible = TrueText =>
       \/ r.last_donation_date \in {Null, Undefined}
       \/ /\ r.last_donation_date.t = "date"
          /\ r.last_donation_date.v < now - EligibilityDays

\* the query getAllDonors builds from its filters at the moment `now`
ListMatches(filters, now, r) ==
  /\ Truthy(filters.blood_group) =>
       r.blood_group = Str(ToUpperCase(filters.blood_group.v))
  /\ filters.isEligible = TrueText =>
       \/ r.last_donation_date \in {Null, Undefined}
       \/ /\ r.last_donation_date.t = "date"
          /\ r.last_donation_date.v <= now - EligibilityDays

\* No document carries createdAt (the schema sets no timestamps), so the
\* sort leaves the store's order: the result is the set of matching records.
getAllDonors(st, filters, now) ==
  Resolved({r \in st : ListMatches(filters, now, r)})

\* ----------------------------------------------------------- the statistics
RECURSIVE SumAges(_)
SumAges(rs) ==
  IF rs = {} THEN 0
  ELSE LET r == CHOOSE x \in rs : TRUE IN r.age.v + SumAges(rs \ {r})

\* mutant: $sum counts every document, not the group's
GroupOfCountsAll(st, label) ==
  LET rs == {r \in st : r.blood_group = label} IN
  [_id |-> label, count |-> Cardinality(st),
   avgAge |-> [sum |-> SumAges(rs), n |-> Cardinality(rs)]]

\* $group by blood_group: count and average age (kept as sum over n)
GroupOf(st, label) ==
  LET rs == {r \in st : r.blood_group = label} IN
  [_id |-> label, count |-> Cardinality(rs),
   avgAge |-> [sum |-> SumAges(rs), n |-> Cardinality(rs)]]

RECURSIVE SortLabels(_)
\* $sort: {_id: 1}
SortLabels(ls) ==
  IF ls = {} THEN <<>>
  ELSE LET m == CHOOSE x \in ls : \A y \in ls \ {x} : StrLess(x.v, y.v) IN
       <<m>> \o SortLabels(ls \ {m})

Aggregate(st) ==
  LET sorted == SortLabels({r.blood_group : r \in st}) IN
  [i \in 1..Len(sorted) |-> GroupOf(st, sorted[i])]

CountDocuments(st) == Cardinality(st)

\* ------------------------------------------------------------- the CSV rows
\* lines 27-37: the candidate built from one parsed row
Transform(row) ==
  [name |-> TrimOrEmpty(row.name),
   age |-> IF Truthy(ParseInt(row.age)) THEN ParseInt(row.age) ELSE Num(0),
   blood_group |-> TrimUpperOrEmpty(row.blood_group),
   contact_number |-> TrimOrEmpty(row.contact_number),
   email |-> TrimLowerOrEmpty(row.email),
   address |-> TrimOrEmpty(row.address),
   last_donation_date |-> IF Truthy(row.last_donation_date)
                          THEN ParseDate(row.last_donation_date) ELSE Null,
   latitude |-> Undefined,
   longitude |-> Undefined]

\* mutant: only the name is tested
MissingRequiredNameOnly(donor) == ~Truthy(donor.name)

\* line 40: !donor.name || !donor.email
MissingRequired(donor) == ~Truthy(donor.name) \/ ~Truthy(donor.email)

ParseErrorEntry(line, row) ==
  [line |-> line, data |-> row, error |-> "Missing required fields (name or email)"]
FailedEntry(donorData, e) == [data |-> donorData, error |-> e.name]
DuplicateEntry(donorData) == [email |-> donorData.email, error |-> "Email already exists"]

\* lines 96-102: the report the import resolves with
Report(donors, errors, results) ==
  [total |-> Len(donors),
   successful |-> Len(results.successful),
   duplicates |-> Len(results.duplicates),
   failed |-> Len(results.failed),
   errors |-> errors \o results.failed \o results.duplicates]

\* lines 74-89: one candidate's outcome filed under successful, duplicates or failed
Classify(results, donorData, res) ==
  IF res.ok THEN [results EXCEPT !.successful = Append(@, res.value)]
  ELSE IF res.error.code = DuplicateKeyCode
       THEN [results EXCEPT !.duplicates = Append(@, DuplicateEntry(donorData))]
       ELSE [results EXCEPT !.failed = Append(@, FailedEntry(donorData, res.error))]

\* ------------------------------------------------------------------ inputs
Row(name, age, bg, email, date) ==
  [name |-> name, age |-> age, blood_group |-> bg, contact_number |-> Str(<<"1">>),
   email |-> email, address |-> Str(<<"n">>), last_donation_date |-> date]

\* rows a CSV file may hold: two complete rows (padded, mixed case, a
\* non-numeric age), a blank name, a missing email column, an empty blood group
RowInputs ==
  { Row(Str(<<" ", "n">>), Str(<<"3", "0">>), Str(<<"a", "+">>), Str(<<" ", "A">>), Str(<<>>)),
    Row(Str(<<"n">>), Str(<<"n">>), Str(<<"B", "-">>), Str(<<"b">>), Str(<<"1", "0">>)),
    Row(Str(<<" ">>), Str(<<"3", "0">>), Str(<<"a", "+">>), Str(<<"b">>), Str(<<>>)),
    Row(Str(<<"n">>), Undefined, Str(<<"a", "+">>), Undefined, Undefined),
    Row(Str(<<"n">>), Str(<<"3", "0">>), Str(<<>>), Str(<<"a">>), Str(<<>>)) }

Data(name, age, email, bg, date, geo) ==
  [name |-> name, age |-> Num(age), blood_group |-> bg, contact_number |-> Str(<<"1">>),
   email |-> email, address |-> Str(<<"n">>), last_donation_date |-> date,
   latitude |-> geo, longitude |-> geo]

\* bodies given to createDonor
CreateInputs ==
  { Data(Str(<<"n">>), 30, Str(<<"a">>), Str(<<"A", "+">>), Undefined, Num(7)),
    Data(Str(<<"n">>), 40, Str(<<"A">>), Str(<<"a", "+">>), DateOf(10), Num(7)),
    Data(Str(<<"n">>), 50, Str(<<"b">>), Str(<<"B", "-">>), DateOf(11), Num(7)),
    Data(Str(<<" ">>), 30, Str(<<"b">>), Str(<<"B", "-">>), Null, Num(7)),
    Data(Str(<<"n">>), 30, Str(<<>>), Str(<<"A", "+">>), Null, Num(7)),
    Data(Str(<<"n">>), 30, Str(<<"a">>), Str(<<"A", "+">>), Null, Undefined) }

Patch(f, x) == [g \in Fields |-> IF g = f THEN x ELSE Undefined]

\* bodies given to updateDonor
UpdateInputs ==
  { Patch("email", Str(<<"a">>)), Patch("email", Str(<<>>)), Patch("email", Null),
    Patch("name", Str(<<" ">>)) }

\* identifiers given to the by-id operations: every identifier the store can
\* assign, one of the right length that is not hex, one hex of the wrong length
IdInputs ==
  {Str(IdOfNat(n)) : n \in 1..MaxDocs}
    \cup {Str([i \in 1..IdLen |-> "g"]), Str([i \in 1..(IdLen + 1) |-> "0"])}

FilterInputs ==
  [blood_group : {Undefined, Str(<<"a", "+">>)},
   isEligible : {Undefined, TrueText, Str(<<"n">>), Bool(TRUE)}]

\* readings of the clock, in days
NowInputs == {100, 101}

Imports == {1, 2}

\* ------------------------------------------------------------------- state
VARIABLES
  schema,   \* the Donor schema the build loaded
  store,    \* the documents of the collection
  nextId,   \* how many documents the store has inserted, plus one
  imp,      \* imp[p]: the importDonorsFromCSV run p
  stat,     \* the getDonorStatistics call
  reply     \* what the last getDonorById or getAllDonors call gave its caller

vars == <<schema, store, nextId, imp, stat, reply>>

NoResults == [successful |-> <<>>, failed |-> <<>>, duplicates |-> <<>>]

ImportInit ==
  [pc |-> "idle", lineNumber |-> 1, donors |-> <<>>, errors |-> <<>>,
   results |-> NoResults, cursor |-> 0, inflight |-> {}, issued |-> <<>>,
   out |-> Null]

Init ==
  /\ schema \in SchemaVariants
  /\ store = {}
  /\ nextId = 1
  /\ imp = [p \in Imports |-> ImportInit]
  /\ stat = [pc |-> "idle", byBloodGroup |-> <<>>, total |-> 0,
             grouped |-> {}, counted |-> {}]
  /\ reply = [op |-> "none", args |-> <<>>, out |-> Null]

\* ------------------------------------------------- single-record operations
CreateDonor(d) ==
  /\ nextId <= MaxDocs
  /\ LET r == createDonor(schema, store, nextId, d) IN
       /\ store' = r.store
       /\ nextId' = IF r.out.ok THEN nextId + 1 ELSE nextId
  /\ UNCHANGED <<schema, imp, stat, reply>>

UpdateDonor(id, u) ==
  /\ LET r == updateDonor(schema, store, id, u) IN
       store' = r.store
  /\ UNCHANGED <<schema, nextId, imp, stat, reply>>

DeleteDonor(id) ==
  /\ LET r == deleteDonor(store, id) IN
       store' = r.store
  /\ UNCHANGED <<schema, nextId, imp, stat, reply>>

GetDonorById(id) ==
  /\ reply' = [op |-> "getDonorById", args |-> <<id>>, out |-> getDonorById(store, id)]
  /\ UNCHANGED <<schema, store, nextId, imp, stat>>

GetAllDonors(f, now) ==
  /\ reply' = [op |-> "getAllDonors", args |-> <<f, now>>,
                out |-> getAllDonors(store, f, now)]
  /\ UNCHANGED <<schema, store, nextId, imp, stat>>

\* ----------------------------------------------------------- the statistics
\* line 246: the aggregate is awaited, then (line 259) the count
StatsAggregate ==
  /\ stat.pc = "idle"
  /\ stat' = [stat EXCEPT !.pc = "aggregated", !.byBloodGroup = Aggregate(store),
                          !.grouped = store]
  /\ UNCHANGED <<schema, store, nextId, imp, reply>>

StatsCount ==
  /\ stat.pc = "aggregated"
  /\ stat' = [stat EXCEPT !.pc = "done", !.total = CountDocuments(store),
                          !.counted = store]
  /\ UNCHANGED <<schema, store, nextId, imp, reply>>

\* -------------------------------------------------------------- the import
\* lines 17-21
ImportStart(p, exists) ==
  /\ imp[p].pc = "idle"
  /\ imp' = [imp EXCEPT ![p] =
       IF exists THEN [@ EXCEPT !.pc = "reading"]
       ELSE [@ EXCEPT !.pc = "rejected", !.out = Rejected("CSV file not found")]]
  /\ UNCHANGED <<schema, store, nextId, stat, reply>>

\* mutant: a row that misses a required field is skipped without a record
ReadRowSkipsInvalid(p, row) ==
  /\ imp[p].pc = "reading"
  /\ imp[p].lineNumber - 1 < MaxRows
  /\ LET line == imp[p].lineNumber + 1
         donor == Transform(row) IN
     imp' = [imp EXCEPT ![p] =
       IF MissingRequired(donor)
       THEN [@ EXCEPT !.lineNumber = line]
       ELSE [@ EXCEPT !.lineNumber = line, !.donors = Append(@, donor)]]
  /\ UNCHANGED <<schema, store, nextId, stat, reply>>

\* lines 23-56, the 'data' handler
ReadRow(p, row) ==
  /\ imp[p].pc = "reading"
  /\ imp[p].lineNumber - 1 < MaxRows
  /\ LET line == imp[p].lineNumber + 1
         donor == Transform(row) IN
     imp' = [imp EXCEPT ![p] =
       IF MissingRequired(donor)
       THEN [@ EXCEPT !.lineNumber = line,
                      !.errors = Append(@, ParseErrorEntry(line, row))]
       ELSE [@ EXCEPT !.lineNumber = line, !.donors = Append(@, donor)]]
  /\ UNCHANGED <<schema, store, nextId, stat, reply>>

\* lines 107-109, the 'error' handler
StreamError(p) ==
  /\ imp[p].pc = "reading"
  /\ imp' = [imp EXCEPT ![p] = [@ EXCEPT !.pc = "rejected",
                                        !.out = Rejected("CSV reading error")]]
  /\ UNCHANGED <<schema, store, nextId, stat, reply>>

\* mutant: no test for an empty candidate list, the loop runs zero times
StreamEndWithoutEmptyTest(p) ==
  /\ imp[p].pc = "reading"
  /\ imp' = [imp EXCEPT ![p] =
       IF Len(@.donors) = 0
       THEN [@ EXCEPT !.pc = "resolved",
                      !.out = Resolved(Report(imp[p].donors, imp[p].errors, NoResults))]
       ELSE [@ EXCEPT !.pc = "awaiting", !.cursor = 1, !.inflight = {1},
                      !.issued = <<1>>]]
  /\ UNCHANGED <<schema, store, nextId, stat, reply>>

\* mutant: every create is issued at once, none awaited before the next
StreamEndIssuesAll(p) ==
  /\ imp[p].pc = "reading"
  /\ imp' = [imp EXCEPT ![p] =
       IF Len(@.donors) = 0
       THEN [@ EXCEPT !.pc = "rejected",
                      !.out = Rejected("No valid donor records found in CSV")]
       ELSE [@ EXCEPT !.pc = "awaiting", !.cursor = 1,
                      !.inflight = 1..Len(imp[p].donors),
                      !.issued = [i \in 1..Len(imp[p].donors) |-> i]]]
  /\ UNCHANGED <<schema, store, nextId, stat, reply>>

\* lines 57-74, the 'end' handler up to the first awaited create
StreamEnd(p) ==
  /\ imp[p].pc = "reading"
  /\ imp' = [imp EXCEPT ![p] =
       IF Len(@.donors) = 0
       THEN [@ EXCEPT !.pc = "rejected",
                      !.out = Rejected("No valid donor records found in CSV")]
       ELSE [@ EXCEPT !.pc = "awaiting", !.cursor = 1, !.inflight = {1},
                      !.issued = <<1>>]]
  /\ UNCHANGED <<schema, store, nextId, stat, reply>>

\* lines 74-102: the awaited create settles, its outcome is filed, and the
\* loop either issues the next create or resolves with the report
CreateSettles(p) ==
  /\ imp[p].pc = "awaiting"
  /\ imp[p].cursor \in imp[p].inflight
  /\ nextId <= MaxDocs
  /\ LET me == imp[p]
         donorData == me.donors[me.cursor]
         r == ModelCreate(schema, store, nextId, donorData)
         results == Classify(me.results, donorData, r.res)
         next == me.cursor + 1 IN
       /\ store' = r.store
       /\ nextId' = IF r.res.ok THEN nextId + 1 ELSE nextId
       /\ imp' = [imp EXCEPT ![p] =
            IF next <= Len(me.donors)
            THEN [@ EXCEPT !.results = results, !.cursor = next,
                           !.inflight = (@ \ {me.cursor}) \cup {next},
                           !.issued = Append(@, next)]
            ELSE [@ EXCEPT !.results = results, !.cursor = next,
                           !.inflight = @ \ {me.cursor}, !.pc = "resolved",
                           !.out = Resolved(Report(me.donors, me.errors, results))]]
  /\ UNCHANGED <<schema, stat, reply>>

\* ----------------------------------------------------------- specifications
CrudStep ==
  \/ \E d \in CreateInputs : CreateDonor(d)
  \/ \E id \in IdInputs, u \in UpdateInputs : UpdateDonor(id, u)
  \/ \E id \in IdInputs : DeleteDonor(id)

QueryStep ==
  \/ \E id \in IdInputs : GetDonorById(id)
  \/ \E f \in FilterInputs, now \in NowInputs : GetAllDonors(f, now)

StatsStep == StatsAggregate \/ StatsCount

ImportStep(p) ==
  \/ \E exists \in BOOLEAN : ImportStart(p, exists)
  \/ \E row \in RowInputs : ReadRow(p, row)
  \/ StreamError(p)
  \/ StreamEnd(p)
  \/ CreateSettles(p)

\* one import among single-record operations of other callers
Next == CrudStep \/ ImportStep(1)
Spec == Init /\ [][Next]_vars

\* the single-record operations and the list
NextCrud == CrudStep \/ QueryStep
SpecCrud == Init /\ [][NextCrud]_vars

\* the statistics among single-record operations of other callers
NextStats == CrudStep \/ StatsStep
SpecStats == Init /\ [][NextStats]_vars

\* concurrent imports and createDonor calls
NextImports == (\E p \in Imports : ImportStep(p)) \/ (\E d \in CreateInputs : CreateDonor(d))
SpecImports == Init /\ [][NextImports]_vars

\* ------------------------------------------------------------------ claims
NonEmpty(x) == x.t = "string" /\ Len(x.v) > 0

\* a candidate whose seven CSV fields are all filled and well formed
CompleteCandidate(d) ==
  /\ \A f \in StringPaths : NonEmpty(d[f])
  /\ d.age.t = "number"
  /\ d.last_donation_date # InvalidDate

\* the step in which import p's awaited create settles
Settles(p) == imp[p].pc = "awaiting" /\ imp'[p].cursor = imp[p].cursor + 1

Candidate(p) == imp[p].donors[imp[p].cursor]

ParseEntries(errors) == {i \in 1..Len(errors) : "line" \in DOMAIN errors[i]}

\* C1: a candidate row (here: one with every CSV field filled) whose email is
\* already in the store is counted in duplicates and not in successful or
\* failed, its entry {email, 'Email already exists'} is in the errors of the
\* report, and the stored records with that email are the same after as before.
C1_Original ==
  [][\A p \in Imports :
       (Settles(p) /\ CompleteCandidate(Candidate(p))
          /\ \E r \in store : r.email = Candidate(p).email) =>
         /\ imp'[p].results.duplicates =
              Append(imp[p].results.duplicates,
                     [email |-> Candidate(p).email, error |-> "Email already exists"])
         /\ imp'[p].results.successful = imp[p].results.successful
         /\ imp'[p].results.failed = imp[p].results.failed
         /\ {r \in store' : r.email = Candidate(p).email}
              = {r \in store : r.email = Candidate(p).email}
         /\ imp'[p].pc = "resolved" =>
              \E i \in 1..Len(imp'[p].out.value.errors) :
                 imp'[p].out.value.errors[i] =
                   [email |-> Candidate(p).email, error |-> "Email already exists"]]_vars

NoValidRecords == Rejected("No valid donor records found in CSV")

\* C2: when the stream ends with no candidate, the import is rejected with
\* 'No valid donor records found in CSV', it never issues a create, and no
\* step of it changes the store.
C2_NoValidRecords ==
  /\ [][\A p \in Imports :
          (StreamEnd(p) /\ imp[p].donors = <<>>) =>
            /\ imp'[p].pc = "rejected"
            /\ imp'[p].out = NoValidRecords
            /\ store' = store]_vars
  /\ [][\A p \in Imports :
          (imp'[p] # imp[p] /\ imp'[p].donors = <<>>) => store' = store]_vars
  /\ [](\A p \in Imports :
          /\ (imp[p].pc = "rejected" /\ imp[p].out = NoValidRecords) =>
               /\ imp[p].donors = <<>>
               /\ imp[p].issued = <<>> /\ imp[p].inflight = {}
               /\ imp[p].results = NoResults
          /\ imp[p].donors = <<>> => imp[p].pc \in {"idle", "reading", "rejected"})

C2_Witness ==
  \E p \in Imports :
    /\ imp[p].pc = "rejected" /\ imp[p].out = NoValidRecords
    /\ Len(imp[p].errors) = MaxRows
    /\ store # {}

C5_NameAndEmailPresent ==
  /\ \A r \in store : NonEmpty(r.name) /\ NonEmpty(r.email)
  /\ \A p \in Imports :
       /\ imp[p].lineNumber - 1 = Len(imp[p].donors) + Len(imp[p].errors)
       /\ \A i \in 1..Len(imp[p].donors) :
            NonEmpty(imp[p].donors[i].name) /\ NonEmpty(imp[p].donors[i].email)
       /\ \A i \in 1..Len(imp[p].errors) :
            \/ ~IsStr(imp[p].errors[i].data.name)
            \/ ~IsStr(imp[p].errors[i].data.email)
            \/ Trim(imp[p].errors[i].data.name.v) = <<>>
            \/ Trim(imp[p].errors[i].data.email.v) = <<>>

C5_Witness ==
  /\ Cardinality(store) = 2
  /\ \E p \in Imports :
       /\ imp[p].pc = "resolved"
       /\ Len(imp[p].errors) = 1
       /\ Len(imp[p].results.successful) = 1

\* C9: an import has at most one create in flight, issues the create of
\* candidate k+1 only after that of candidate k has settled, and the
\* candidates attempted so far are a prefix of the candidate sequence.
C9_OneAtATime ==
  \A p \in Imports :
    LET me == imp[p]
        settled == Len(me.results.successful) + Len(me.results.failed)
                     + Len(me.results.duplicates) IN
      /\ Cardinality(me.inflight) <= 1
      /\ Len(me.issued) <= Len(me.donors)
      /\ \A i \in 1..Len(me.issued) : me.issued[i] = i
      /\ me.inflight \subseteq {Len(me.issued)}
      /\ settled = Len(me.issued) - Cardinality(me.inflight)

C9_Witness ==
  \E p \in Imports :
    /\ imp[p].issued = <<1, 2>>
    /\ imp[p].inflight = {2}
    /\ Len(imp[p].results.successful) = 1
SameIgnoringCase(a, b) == IsStr(a) /\ IsStr(b) /\ ToLowerCase(a.v) = ToLowerCase(b.v)

\* C4: a createDonor (here: of a body the schema accepts) whose email equals
\* a stored email up to letter case is rejected with 'Email already exists'
\* and leaves the store unchanged; so no two stored records have emails that
\* are equal ignoring case.
C4_Original ==
  /\ [][\A d \in CreateInputs :
          (CreateDonor(d) /\ DocValid(schema, Hydrate(schema, d))
             /\ \E r \in store : SameIgnoringCase(r.email, d.email)) =>
            /\ createDonor(schema, store, nextId, d).out = Rejected("Email already exists")
            /\ store' = store]_vars
  /\ [](\A r1, r2 \in store : SameIgnoringCase(r1.email, r2.email) => r1 = r2)

\* C6: getDonorById rejects an identifier that is not well formed with
\* 'Invalid donor ID format', a well-formed identifier of no record with
\* 'Donor not found', returns exactly the record of a well-formed identifier
\* that has one, and never changes the store.
C6_GetDonorById ==
  [][\A id \in IdInputs :
       (reply'.op = "getDonorById" /\ GetDonorById(id)) =>
         LET hex == Len(id.v) = IdLen /\ \A i \in 1..Len(id.v) : IsHexDigit(id.v[i])
             hits == {r \in store : r._id = id.v} IN
           /\ store' = store
           /\ ~hex => reply'.out = Rejected("Invalid donor ID format")
           /\ (hex /\ hits = {}) => reply'.out = Rejected("Donor not found")
           /\ (hex /\ hits # {}) => reply'.out.ok /\ hits = {reply'.out.value}]_vars

C6_Witness ==
  /\ reply.op = "getDonorById"
  /\ reply.out = Rejected("Donor not found")
  /\ reply.args[1] = Str(IdOfNat(1))
  /\ Cardinality(store) = 1

RECURSIVE SumCounts(_)
SumCounts(groups) ==
  IF groups = <<>> THEN 0 ELSE Head(groups).count + SumCounts(Tail(groups))

\* groups holds one group per blood_group of st, by ascending label, each
\* with the number of records of st that have the label
GroupsDescribe(groups, st) ==
  /\ {groups[i]._id : i \in 1..Len(groups)} = {r.blood_group : r \in st}
  /\ \A i, j \in 1..Len(groups) : i < j => StrLess(groups[i]._id.v, groups[j]._id.v)
  /\ \A i \in 1..Len(groups) :
       groups[i].count = Cardinality({r \in st : r.blood_group = groups[i]._id})

\* C8 as stated: what getDonorStatistics returns describes the store at its
\* return (one group per blood_group, ascending, with the right counts, total
\* the number of records and the sum of the counts), other callers' writes
\* interleaving or not.
C8_Original ==
  stat.pc = "done" =>
    /\ GroupsDescribe(stat.byBloodGroup, stat.counted)
    /\ stat.total = Cardinality(stat.counted)
    /\ stat.total = SumCounts(stat.byBloodGroup)

\* C8 amended: the groups describe the store as it was when the aggregate
\* ran, their counts sum to the number of records then, and total is the
\* number of records when the count ran.
C8_TwoReads ==
  /\ stat.pc \in {"aggregated", "done"} =>
       /\ GroupsDescribe(stat.byBloodGroup, stat.grouped)
       /\ SumCounts(stat.byBloodGroup) = Cardinality(stat.grouped)
  /\ stat.pc = "done" => stat.total = Cardinality(stat.counted)

C8_Witness ==
  /\ stat.pc = "done"
  /\ Len(stat.byBloodGroup) = 2
  /\ stat.total # SumCounts(stat.byBloodGroup)

\* C10: whenever attempts to insert one email race (imports, createDonor), at
\* most one record with the email is stored, the attempt that finds the
\* email absent is reported successful and every attempt that finds it
\* present is reported a duplicate ('Email already exists' for createDonor).
\* Attempts are those the claim is about: rows with every CSV field filled,
\* bodies the schema accepts.
C10_Original ==
  /\ [](\A r1, r2 \in store : r1.email = r2.email => r1 = r2)
  /\ [][\A p \in Imports :
          (Settles(p) /\ CompleteCandidate(Candidate(p))) =>
            IF \E r \in store : r.email = Candidate(p).email
            THEN /\ Len(imp'[p].results.duplicates) = Len(imp[p].results.duplicates) + 1
                 /\ store' = store
            ELSE /\ Len(imp'[p].results.successful) = Len(imp[p].results.successful) + 1
                 /\ Cardinality({r \in store' : r.email = Candidate(p).email}) = 1]_vars
  /\ [][\A d \in CreateInputs :
          (CreateDonor(d) /\ DocValid(schema, Hydrate(schema, d))) =>
            IF \E r \in store : r.email = d.email
            THEN /\ createDonor(schema, store, nextId, d).out = Rejected("Email already exists")
                 /\ store' = store
            ELSE /\ createDonor(schema, store, nextId, d).out.ok
                 /\ Cardinality({r \in store' : r.email = d.email}) = 1]_vars

====
